---------------------------- MODULE Spec2Model ----------------------------
(***************************************************************************)
(* A model of net_auto_tool: device classification (device.py), the        *)
(* router and switch extractors (router_parser.py, switch_parser.py), the  *)
(* per-file driver (config_parser.py), the main loop (main.py) and the     *)
(* topology inference (topology.py).                                       *)
(*                                                                         *)
(* A configuration text is a sequence of tokens.  A token is a word (a     *)
(* maximal run of non-blank characters), the line break NL, or IND, the    *)
(* blank that indents a line.  Two words that are neighbours in the        *)
(* sequence are separated by exactly one blank.  The regular expressions   *)
(* of the source are evaluated on that sequence.                           *)
(***************************************************************************)
EXTENDS Integers, Sequences, FiniteSets, TLC

VARIABLES
    pc,            \* position of the run
    config_text,   \* the text given to detect_device_type / an extractor
    device_type,   \* what detect_device_type returned
    device,        \* the device an extractor or parse_any_config returned
    config_files,  \* main: the input files
    file_idx,      \* main: number of files the loop has finished with
    all_devices,   \* main: the devices collected so far
    all_findings,  \* main: the findings collected so far
    all_recommendations,  \* main: the recommendations collected so far
    error,         \* main: the exception that ended the run, if any
    device_list,   \* build_topology: its argument
    graph          \* build_topology: the graph it returned

vars == <<pc, config_text, device_type, device, config_files, file_idx,
          all_devices, all_findings, all_recommendations, error, device_list, graph>>

None == "None"
NL == "\n"
IND == " "

----------------------------------------------------------------------------
(* Sequences *)

RECURSIVE SeqsUpTo(_, _)
SeqsUpTo(S, n) ==
    IF n = 0 THEN {<<>>}
    ELSE LET shorter == SeqsUpTo(S, n - 1)
         IN  shorter \cup {Append(s, x) : s \in {q \in shorter : Len(q) = n - 1}, x \in S}

RECURSIVE Flatten(_)
Flatten(lines) ==
    IF lines = <<>> THEN <<>>
    ELSE Head(lines) \o <<NL>> \o Flatten(Tail(lines))

Range(s) == {s[i] : i \in 1..Len(s)}

CountIn(s, P(_)) == Cardinality({i \in 1..Len(s) : P(s[i])})

----------------------------------------------------------------------------
(* Words: str.lower(), substring, prefix and suffix on the vocabulary *)

Lower(w) ==
    CASE w = "HOSTNAME" -> "hostname"
      [] w = "Hostname" -> "hostname"
      [] w = "Switchport" -> "switchport"
      [] w = "ROUTER" -> "router"
      [] w = "OSPF" -> "ospf"
      [] w = "IP" -> "ip"
      [] w = "Route" -> "route"
      [] w = "Serial0/0" -> "serial0/0"
      [] w = "Vlan10" -> "vlan10"
      [] w = "Tunnel0" -> "tunnel0"
      [] w = "Port-channel1" -> "port-channel1"
      [] w = "GigabitEthernet0/1" -> "gigabitethernet0/1"
      [] w = "FastEthernet0/1" -> "fastethernet0/1"
      [] w = "R1" -> "r1"
      [] w = "R2" -> "r2"
      [] w = "R3" -> "r3"
      [] w = "SW1" -> "sw1"
      [] w = "R1-R2" -> "r1-r2"
      [] w = "Link" -> "link"
      [] w = "Unknown" -> "unknown"
      [] OTHER -> w

\* <<k, w>>: k is a prefix of the lower-case word w, and k # w
ProperPrefix ==
    {<<"serial", "serial0/0">>, <<"vlan", "vlan10">>, <<"tunnel", "tunnel0">>,
     <<"port-channel", "port-channel1">>, <<"r1", "r1-r2">>,
     <<"r", "r1">>, <<"r", "r2">>, <<"r", "r3">>, <<"r", "r1-r2">>, <<"r", "rip">>,
     <<"r", "route">>, <<"r", "router">>}

\* <<k, w>>: k is a suffix of the lower-case word w, and k # w
ProperSuffix == {<<"r2", "r1-r2">>, <<"interface", "passive-interface">>}

\* <<k, w>>: k occurs inside the lower-case word w, neither at its start nor at its end
ProperInner == {<<"rip", "description">>, <<"ip", "description">>}

IsPrefix(k, w) == k = w \/ <<k, w>> \in ProperPrefix
IsSuffix(k, w) == k = w \/ <<k, w>> \in ProperSuffix
IsSub(k, w) == IsPrefix(k, w) \/ IsSuffix(k, w) \/ <<k, w>> \in ProperInner

IsWS(tok) == tok \in {NL, IND}

LowerText(t) == [i \in 1..Len(t) |-> Lower(t[i])]

----------------------------------------------------------------------------
(* device.py: detect_device_type *)

\* an indicator: its words, and whether a blank ends it ('ip route ')
Ind(ws, sp) == [words |-> ws, space |-> sp]

switch_indicators ==
    <<Ind(<<"switchport">>, FALSE), Ind(<<"spanning-tree">>, FALSE),
      Ind(<<"vtp", "mode">>, FALSE), Ind(<<"vlan", "database">>, FALSE),
      Ind(<<"show", "mac", "address-table">>, FALSE)>>

router_indicators ==
    <<Ind(<<"router", "ospf">>, FALSE), Ind(<<"router", "bgp">>, FALSE),
      Ind(<<"router", "eigrp">>, FALSE), Ind(<<"ip", "route">>, TRUE),
      Ind(<<"interface", "serial">>, FALSE), Ind(<<"ppp", "authentication">>, FALSE),
      Ind(<<"frame-relay">>, FALSE), Ind(<<"ip", "nat">>, FALSE),
      Ind(<<"ipsec">>, FALSE), Ind(<<"crypto", "map">>, FALSE)>>

\* the indicator occurs in the lower-case text t with its first word at token i
OccursAt(ind, t, i) ==
    LET ws == ind.words
        n == Len(ws)
    IN  /\ i + n - 1 <= Len(t)
        /\ \A k \in 1..n : ~IsWS(t[i + k - 1])
        /\ IF n = 1
           THEN IF ind.space THEN IsSuffix(ws[1], t[i]) ELSE IsSub(ws[1], t[i])
           ELSE /\ IsSuffix(ws[1], t[i])
                /\ \A k \in 2..(n - 1) : t[i + k - 1] = ws[k]
                /\ IF ind.space THEN t[i + n - 1] = ws[n]
                   ELSE IsPrefix(ws[n], t[i + n - 1])
        /\ ind.space => (i + n <= Len(t) /\ ~IsWS(t[i + n]))

\* indicator in config_text_lower
Occurs(ind, t) == \E i \in 1..Len(t) : OccursAt(ind, t, i)

Score(inds, t) == Cardinality({k \in 1..Len(inds) : Occurs(inds[k], t)})

AnyOccurs(wordset, t) == \E w \in wordset : Occurs(Ind(<<w>>, FALSE), t)

\* a classifier that looks at the interface types before the coarse keywords
ClassifyHintsFirst(t) ==
    LET switch_score == Score(switch_indicators, t)
        router_score == Score(router_indicators, t)
        has_routing_protocol == AnyOccurs({"ospf", "bgp", "eigrp", "rip"}, t)
        has_switch_commands == AnyOccurs({"vlan", "switchport"}, t)
    IN  IF router_score > switch_score THEN "router"
        ELSE IF switch_score > router_score THEN "switch"
        ELSE IF Occurs(Ind(<<"interface", "serial">>, FALSE), t)
                \/ Occurs(Ind(<<"interface", "tunnel">>, FALSE), t) THEN "router"
        ELSE IF Occurs(Ind(<<"interface", "vlan">>, FALSE), t)
                \/ Occurs(Ind(<<"interface", "port-channel">>, FALSE), t) THEN "switch"
        ELSE IF has_routing_protocol /\ ~has_switch_commands THEN "router"
        ELSE IF has_switch_commands /\ ~has_routing_protocol THEN "switch"
        ELSE "unknown"

\* lines 50-67, on the text that line 31 made lower-case
Classify(t) ==
    LET switch_score == Score(switch_indicators, t)
        router_score == Score(router_indicators, t)
        has_routing_protocol == AnyOccurs({"ospf", "bgp", "eigrp", "rip"}, t)
        has_switch_commands == AnyOccurs({"vlan", "switchport"}, t)
    IN  IF router_score > switch_score THEN "router"
        ELSE IF switch_score > router_score THEN "switch"
        ELSE IF has_routing_protocol /\ ~has_switch_commands THEN "router"
        ELSE IF has_switch_commands /\ ~has_routing_protocol THEN "switch"
        ELSE IF Occurs(Ind(<<"interface", "serial">>, FALSE), t)
                \/ Occurs(Ind(<<"interface", "tunnel">>, FALSE), t) THEN "router"
        ELSE IF Occurs(Ind(<<"interface", "vlan">>, FALSE), t)
                \/ Occurs(Ind(<<"interface", "port-channel">>, FALSE), t) THEN "switch"
        ELSE "unknown"

\* a classifier that skips line 31, config_text.lower()
detect_device_type_case_sensitive(text) == Classify(text)

detect_device_type(text) == Classify(LowerText(text))

----------------------------------------------------------------------------
(* device.py: NetworkDevice, Switch, Router *)

\* Router(): a dictionary is the sequence of its <<key, value>> entries in
\* insertion order; an absent description is the empty token sequence
Router ==
    [kind |-> "Router", hostname |-> "Unknown", vendor |-> "Cisco",
     model |-> "Unknown", interfaces |-> <<>>, routing_protocols |-> <<>>,
     routes |-> <<>>, bgp_asn |-> None, ospf_process_id |-> None,
     vlans |-> {}, stp_mode |-> None]

Switch ==
    [kind |-> "Switch", hostname |-> "Unknown", vendor |-> "Cisco",
     model |-> "Unknown", interfaces |-> <<>>, routing_protocols |-> <<>>,
     routes |-> <<>>, bgp_asn |-> None, ospf_process_id |-> None,
     vlans |-> {}, stp_mode |-> None]

\* d[k] = v on a dictionary: a present key keeps its place
DictSet(d, k, v) ==
    IF \E i \in 1..Len(d) : d[i][1] = k
    THEN [i \in 1..Len(d) |-> IF d[i][1] = k THEN <<k, v>> ELSE d[i]]
    ELSE Append(d, <<k, v>>)

DictKeys(d) == {d[i][1] : i \in 1..Len(d)}

DictGet(d, k) == d[CHOOSE i \in 1..Len(d) : d[i][1] = k][2]

----------------------------------------------------------------------------
(* The words the patterns \d+, \d{4} and \d+\.\d+\.\d+\.\d+ match *)

DigitWords == {"0", "1", "2", "10", "100", "250", "65000", "65001", "2911"}

\* octets of the dotted quads of the vocabulary
Quad(w) ==
    CASE w = "0.0.0.0" -> <<0, 0, 0, 0>>
      [] w = "0.0.0.3" -> <<0, 0, 0, 3>>
      [] w = "10.0.0.1" -> <<10, 0, 0, 1>>
      [] w = "10.0.0.2" -> <<10, 0, 0, 2>>
      [] w = "10.0.0.5" -> <<10, 0, 0, 5>>
      [] w = "10.0.0.6" -> <<10, 0, 0, 6>>
      [] w = "10.0.1.1" -> <<10, 0, 1, 1>>
      [] w = "10.0.1.2" -> <<10, 0, 1, 2>>
      [] w = "10.0.0.999" -> <<10, 0, 0, 999>>
      [] w = "10.1.1.0" -> <<10, 1, 1, 0>>
      [] w = "10.1.1.1" -> <<10, 1, 1, 1>>
      [] w = "10.1.1.2" -> <<10, 1, 1, 2>>
      [] w = "10.2.0.0" -> <<10, 2, 0, 0>>
      [] w = "10.3.0.0" -> <<10, 3, 0, 0>>
      [] w = "255.255.0.0" -> <<255, 255, 0, 0>>
      [] w = "255.255.255.0" -> <<255, 255, 255, 0>>
      [] w = "255.255.255.252" -> <<255, 255, 255, 252>>
      [] w = "255.0.255.0" -> <<255, 0, 255, 0>>
      [] OTHER -> <<>>

\* \d+\.\d+\.\d+\.\d+ matches the whole word
IsQuad(w) == Quad(w) # <<>>

\* the digits a word starts with ("" when it starts with none)
LeadingDigits(w) ==
    IF w \in DigitWords THEN w
    ELSE IF IsQuad(w) THEN (CASE Quad(w)[1] = 0 -> "0" [] Quad(w)[1] = 10 -> "10"
                             [] Quad(w)[1] = 255 -> "255" [] OTHER -> "")
    ELSE ""

----------------------------------------------------------------------------
(* Matching on token sequences *)

\* the first word after token i (\s+ skips any run of blanks and line breaks); 0: none
RECURSIVE NextTok(_, _)
NextTok(t, i) ==
    IF i + 1 > Len(t) THEN 0
    ELSE IF IsWS(t[i + 1]) THEN NextTok(t, i + 1)
    ELSE i + 1

\* the places of n words from word i on; shorter when the text ends before
RECURSIVE WordsFrom(_, _, _)
WordsFrom(t, i, n) ==
    IF n = 0 \/ i = 0 THEN <<>>
    ELSE <<i>> \o WordsFrom(t, NextTok(t, i), n - 1)

\* a literal keyword that starts a pattern (the pattern is not anchored), re.IGNORECASE
KwEnds(k, w) == ~IsWS(w) /\ IsSuffix(k, Lower(w))
\* a literal keyword between \s+ and \s+, re.IGNORECASE
KwIs(k, w) == Lower(w) = k

NoMatch == [ok |-> FALSE, last |-> 0, groups |-> <<>>]
Match(e, g) == [ok |-> TRUE, last |-> e, groups |-> g]

\* re.search(pattern, t): the leftmost match; MatchAt(t, i) is the pattern at token i
RECURSIVE SearchFrom(_, _, _)
SearchFrom(MatchAt(_, _), t, i) ==
    IF i > Len(t) THEN NoMatch
    ELSE IF MatchAt(t, i).ok THEN MatchAt(t, i)
    ELSE SearchFrom(MatchAt, t, i + 1)

Search(MatchAt(_, _), t) == SearchFrom(MatchAt, t, 1)

\* re.findall(pattern, t): the groups of the matches, left to right, not overlapping
RECURSIVE FindAllFrom(_, _, _)
FindAllFrom(MatchAt(_, _), t, i) ==
    IF i > Len(t) THEN <<>>
    ELSE IF MatchAt(t, i).ok
         THEN <<MatchAt(t, i).groups>> \o FindAllFrom(MatchAt, t, MatchAt(t, i).last + 1)
         ELSE FindAllFrom(MatchAt, t, i + 1)

FindAll(MatchAt(_, _), t) == FindAllFrom(MatchAt, t, 1)

\* only blanks and line breaks follow token i: \s*$
RestIsBlank(t, i) == \A k \in (i + 1)..Len(t) : IsWS(t[k])

----------------------------------------------------------------------------
(* router_parser.py: parse_router_config *)

\* hostname\s+(\S+)
MatchHostnameAt(t, i) ==
    LET p == WordsFrom(t, i, 2)
    IN  IF Len(p) = 2 /\ KwEnds("hostname", t[p[1]])
        THEN Match(p[2], <<t[p[2]]>>)
        ELSE NoMatch

\* the last four characters of a word that ends with four digits ("" otherwise)
LastFourDigits(w) ==
    CASE w = "2911" -> "2911"
      [] w = "65000" -> "5000"
      [] w = "65001" -> "5001"
      [] OTHER -> ""

\* (\d{4})\s+(?:router|series)
MatchModelAt(t, i) ==
    LET p == WordsFrom(t, i, 2)
    IN  IF /\ Len(p) = 2
           /\ LastFourDigits(t[p[1]]) # ""
           /\ (IsPrefix("router", Lower(t[p[2]])) \/ IsPrefix("series", Lower(t[p[2]])))
        THEN Match(p[2], <<LastFourDigits(t[p[1]])>>)
        ELSE NoMatch

\* the lookahead (?=!\s*$|\n<keyword>\s+\S+) holds in front of token q
StanzaEndsAt(keyword, t, q) ==
    \/ t[q] = "!" /\ RestIsBlank(t, q)
    \/ /\ t[q] = NL
       /\ q + 1 <= Len(t)
       /\ KwIs(keyword, t[q + 1])
       /\ NextTok(t, q + 1) # 0

\* the lookahead \nend holds in front of token q
EndLineAt(t, q) == t[q] = NL /\ q + 1 <= Len(t) /\ IsPrefix("end", Lower(t[q + 1]))

\* the first token after `from` in front of which the lazy .*? may stop; 0: none
FirstStop(Stops(_, _), t, from) ==
    IF \E q \in (from + 1)..Len(t) : Stops(t, q)
    THEN CHOOSE q \in (from + 1)..Len(t) :
             Stops(t, q) /\ \A r \in (from + 1)..(q - 1) : ~Stops(t, r)
    ELSE 0

\* (interface\s+\S+.*?(?=!\s*$|\ninterface\s+\S+|\nend)), re.DOTALL: the group is the block
InterfaceStops(t, q) == StanzaEndsAt("interface", t, q) \/ EndLineAt(t, q)

MatchInterfaceBlockAt(t, i) ==
    LET p == WordsFrom(t, i, 2)
    IN  IF Len(p) = 2 /\ KwEnds("interface", t[p[1]])
        THEN LET q == FirstStop(InterfaceStops, t, p[2])
             IN  IF q = 0 THEN NoMatch
                 ELSE Match(q - 1,
                            <<IF KwIs("interface", t[p[1]]) THEN t[p[1]] ELSE "interface">>
                                \o SubSeq(t, p[1] + 1, q - 1))
        ELSE NoMatch

\* interface\s+(\S+)
MatchInterfaceNameAt(t, i) ==
    LET p == WordsFrom(t, i, 2)
    IN  IF Len(p) = 2 /\ KwEnds("interface", t[p[1]])
        THEN Match(p[2], <<t[p[2]]>>)
        ELSE NoMatch

\* str.strip()
RECURSIVE Strip(_)
Strip(t) ==
    IF t = <<>> THEN <<>>
    ELSE IF IsWS(t[1]) THEN Strip(Tail(t))
    ELSE IF IsWS(t[Len(t)]) THEN Strip(SubSeq(t, 1, Len(t) - 1))
    ELSE t

\* the lookahead (?=\n\S|\n\n|$) holds behind token e
DescriptionEndsAfter(t, e) ==
    \/ e = Len(t)
    \/ e + 1 = Len(t) /\ t[e + 1] = NL
    \/ e + 2 <= Len(t) /\ t[e + 1] = NL /\ t[e + 2] # IND

\* description\s+(.+?)(?=\n\S|\n\n|$), re.DOTALL
MatchDescriptionAt(t, i) ==
    LET j == NextTok(t, i)
    IN  IF KwEnds("description", t[i]) /\ j # 0
        THEN LET e == CHOOSE e \in j..Len(t) :
                          /\ DescriptionEndsAfter(t, e)
                          /\ \A r \in j..(e - 1) : ~DescriptionEndsAfter(t, r)
             IN  Match(e, SubSeq(t, j, e))
        ELSE NoMatch

\* ip\s+address\s+(\d+\.\d+\.\d+\.\d+)\s+(\d+\.\d+\.\d+\.\d+)
MatchIpAddressAt(t, i) ==
    LET p == WordsFrom(t, i, 4)
    IN  IF /\ Len(p) = 4
           /\ KwEnds("ip", t[p[1]])
           /\ KwIs("address", t[p[2]])
           /\ IsQuad(t[p[3]])
           /\ IsQuad(t[p[4]])
        THEN Match(p[4], <<t[p[3]], t[p[4]]>>)
        ELSE NoMatch

\* ip\s+address\s+(\d+\.\d+\.\d+\.\d+)\s+(\d+\.\d+\.\d+\.\d+)\s+secondary
MatchSecondaryAt(t, i) ==
    LET p == WordsFrom(t, i, 5)
    IN  IF /\ Len(p) = 5
           /\ MatchIpAddressAt(t, i).ok
           /\ IsPrefix("secondary", Lower(t[p[5]]))
        THEN Match(p[5], <<t[p[3]], t[p[4]]>>)
        ELSE NoMatch

\* <keyword>\s+(\d+)
MatchNumberAfterAt(keyword, t, i) ==
    LET p == WordsFrom(t, i, 2)
    IN  IF Len(p) = 2 /\ KwEnds(keyword, t[p[1]]) /\ LeadingDigits(t[p[2]]) # ""
        THEN Match(p[2], <<LeadingDigits(t[p[2]])>>)
        ELSE NoMatch

MatchBandwidthAt(t, i) == MatchNumberAfterAt("bandwidth", t, i)
MatchSpeedAt(t, i) == MatchNumberAfterAt("speed", t, i)

\* duplex\s+(\S+)
MatchDuplexAt(t, i) ==
    LET p == WordsFrom(t, i, 2)
    IN  IF Len(p) = 2 /\ KwEnds("duplex", t[p[1]])
        THEN Match(p[2], <<t[p[2]]>>)
        ELSE NoMatch

\* re.search(r'shutdown', block, re.IGNORECASE)
HasShutdown(block) == \E i \in 1..Len(block) : IsSub("shutdown", Lower(block[i]))

\* the dictionary of one interface block (lines 28-79)
RouterInterface(block) ==
    LET desc == Search(MatchDescriptionAt, block)
        ip == Search(MatchIpAddressAt, block)
        sec == Search(MatchSecondaryAt, block)
        bw == Search(MatchBandwidthAt, block)
        dup == Search(MatchDuplexAt, block)
        spd == Search(MatchSpeedAt, block)
    IN  [description |-> IF desc.ok THEN Strip(desc.groups) ELSE <<>>,
         ip_address |-> IF ip.ok THEN ip.groups[1] ELSE None,
         subnet_mask |-> IF ip.ok THEN ip.groups[2] ELSE None,
         shutdown |-> HasShutdown(block),
         bandwidth |-> IF bw.ok THEN bw.groups[1] ELSE None,
         duplex |-> IF dup.ok THEN dup.groups[1] ELSE None,
         speed |-> IF spd.ok THEN spd.groups[1] ELSE None,
         encapsulation |-> None,
         vrf |-> None,
         secondary_ips |-> IF sec.ok THEN <<[ip |-> sec.groups[1], mask |-> sec.groups[2]]>>
                           ELSE <<>>]

\* the loop over interface_blocks (lines 20-79)
RECURSIVE RouterInterfaces(_, _)
RouterInterfaces(interfaces, blocks) ==
    IF blocks = <<>> THEN interfaces
    ELSE LET block == Head(blocks)
             name == Search(MatchInterfaceNameAt, block)
         IN  IF ~name.ok THEN RouterInterfaces(interfaces, Tail(blocks))
             ELSE RouterInterfaces(DictSet(interfaces, name.groups[1], RouterInterface(block)),
                                   Tail(blocks))

\* router\s+<proto>\s+(\d+).*?(?=!\s*$|\nrouter\s+\S+), re.DOTALL: findall yields
\* the one group, the digits, not the text of the stanza
RouterStops(t, q) == StanzaEndsAt("router", t, q)

MatchRoutingBlockAt(proto, t, i) ==
    LET p == WordsFrom(t, i, 3)
    IN  IF /\ Len(p) = 3
           /\ KwEnds("router", t[p[1]])
           /\ KwIs(proto, t[p[2]])
           /\ LeadingDigits(t[p[3]]) # ""
        THEN LET q == FirstStop(RouterStops, t, p[3])
             IN  IF q = 0 THEN NoMatch
                 ELSE Match(q - 1, <<LeadingDigits(t[p[3]])>>)
        ELSE NoMatch

MatchOspfBlockAt(t, i) == MatchRoutingBlockAt("ospf", t, i)
MatchBgpBlockAt(t, i) == MatchRoutingBlockAt("bgp", t, i)

\* router\s+<proto>\s+(\d+)
MatchRoutingIdAt(proto, t, i) ==
    LET p == WordsFrom(t, i, 3)
    IN  IF /\ Len(p) = 3
           /\ KwEnds("router", t[p[1]])
           /\ KwIs(proto, t[p[2]])
           /\ LeadingDigits(t[p[3]]) # ""
        THEN Match(p[3], <<LeadingDigits(t[p[3]])>>)
        ELSE NoMatch

MatchOspfIdAt(t, i) == MatchRoutingIdAt("ospf", t, i)
MatchBgpIdAt(t, i) == MatchRoutingIdAt("bgp", t, i)

\* network\s+(\d+\.\d+\.\d+\.\d+)\s+(\d+\.\d+\.\d+\.\d+)\s+area\s+(\d+)
MatchNetworkAt(t, i) ==
    LET p == WordsFrom(t, i, 5)
    IN  IF /\ Len(p) = 5
           /\ KwEnds("network", t[p[1]])
           /\ IsQuad(t[p[2]])
           /\ IsQuad(t[p[3]])
           /\ KwIs("area", t[p[4]])
           /\ LeadingDigits(t[p[5]]) # ""
        THEN Match(p[5], <<t[p[2]], t[p[3]], LeadingDigits(t[p[5]])>>)
        ELSE NoMatch

\* a route dictionary; a key it does not hold is None
Route(network, mask, type, next_hop, area, admin_distance) ==
    [network |-> network, mask |-> mask, type |-> type, next_hop |-> next_hop,
     area |-> area, admin_distance |-> admin_distance]

OspfRoutes(network_matches) ==
    [k \in 1..Len(network_matches) |->
        Route(network_matches[k][1], network_matches[k][2], "ospf", None,
              network_matches[k][3], None)]

\* the loop over ospf_blocks (lines 83-97)
RECURSIVE ParseOspf(_, _)
ParseOspf(dev, ospf_blocks) ==
    IF ospf_blocks = <<>> THEN dev
    ELSE LET ospf_block == Head(ospf_blocks)
             process_id == Search(MatchOspfIdAt, ospf_block)
         IN  IF ~process_id.ok THEN ParseOspf(dev, Tail(ospf_blocks))
             ELSE ParseOspf(
                    [dev EXCEPT
                       !.ospf_process_id = process_id.groups[1],
                       !.routing_protocols = Append(@, "ospf_" \o process_id.groups[1]),
                       !.routes = @ \o OspfRoutes(FindAll(MatchNetworkAt, ospf_block))],
                    Tail(ospf_blocks))

\* the loop over bgp_blocks (lines 101-105)
RECURSIVE ParseBgp(_, _)
ParseBgp(dev, bgp_blocks) ==
    IF bgp_blocks = <<>> THEN dev
    ELSE LET asn_match == Search(MatchBgpIdAt, Head(bgp_blocks))
         IN  IF ~asn_match.ok THEN ParseBgp(dev, Tail(bgp_blocks))
             ELSE ParseBgp(
                    [dev EXCEPT
                       !.bgp_asn = asn_match.groups[1],
                       !.routing_protocols = Append(@, "bgp_" \o asn_match.groups[1])],
                    Tail(bgp_blocks))

\* ip\s+route\s+(\d+\.\d+\.\d+\.\d+)\s+(\d+\.\d+\.\d+\.\d+)\s+(\S+)(?:\s+(\d+))?
MatchStaticRouteAt(t, i) ==
    LET p == WordsFrom(t, i, 6)
    IN  IF /\ Len(p) >= 5
           /\ KwEnds("ip", t[p[1]])
           /\ KwIs("route", t[p[2]])
           /\ IsQuad(t[p[3]])
           /\ IsQuad(t[p[4]])
        THEN LET admin_distance == IF Len(p) = 6 THEN LeadingDigits(t[p[6]]) ELSE ""
             IN  Match(IF admin_distance # "" THEN p[6] ELSE p[5],
                       <<t[p[3]], t[p[4]], t[p[5]], admin_distance>>)
        ELSE NoMatch

\* lines 109-118: every match is appended with type static
StaticRoutes(static_routes) ==
    [k \in 1..Len(static_routes) |->
        Route(static_routes[k][1], static_routes[k][2], "static", static_routes[k][3],
              None,
              IF static_routes[k][4] # "" THEN static_routes[k][4] ELSE None)]

\* ip\s+route\s+0\.0\.0\.0\s+0\.0\.0\.0\s+(\S+)
MatchDefaultRouteAt(t, i) ==
    LET p == WordsFrom(t, i, 5)
    IN  IF /\ Len(p) = 5
           /\ KwEnds("ip", t[p[1]])
           /\ KwIs("route", t[p[2]])
           /\ t[p[3]] = "0.0.0.0"
           /\ t[p[4]] = "0.0.0.0"
        THEN Match(p[5], <<t[p[5]]>>)
        ELSE NoMatch

\* lines 122-128
DefaultRoutes(default_routes) ==
    [k \in 1..Len(default_routes) |->
        Route("0.0.0.0", "0.0.0.0", "static_default", default_routes[k][1], None, None)]

parse_router_config(text, router_device) ==
    LET hostname_match == Search(MatchHostnameAt, text)
        model_match == Search(MatchModelAt, text)
        d1 == IF hostname_match.ok
              THEN [router_device EXCEPT !.hostname = hostname_match.groups[1]]
              ELSE router_device
        d2 == IF model_match.ok
              THEN [d1 EXCEPT !.model = "Cisco " \o model_match.groups[1]]
              ELSE d1
        d3 == [d2 EXCEPT !.interfaces =
                  RouterInterfaces(@, FindAll(MatchInterfaceBlockAt, text))]
        d4 == ParseOspf(d3, FindAll(MatchOspfBlockAt, text))
        d5 == ParseBgp(d4, FindAll(MatchBgpBlockAt, text))
        d6 == [d5 EXCEPT !.routes = @ \o StaticRoutes(FindAll(MatchStaticRouteAt, text))]
    IN  [d6 EXCEPT !.routes = @ \o DefaultRoutes(FindAll(MatchDefaultRouteAt, text))]

----------------------------------------------------------------------------
(* switch_parser.py: parse_switch_config; its patterns match case and take one blank *)

\* words i .. i+n-1 stand on one line, one blank between neighbours
Adjacent(t, i, n) == i + n - 1 <= Len(t) /\ \A k \in i..(i + n - 1) : ~IsWS(t[k])

\* hostname (\S+)
MatchSwitchHostnameAt(t, i) ==
    IF Adjacent(t, i, 2) /\ IsSuffix("hostname", t[i])
    THEN Match(i + 1, <<t[i + 1]>>)
    ELSE NoMatch

\* the token that ends the lazy (?: .*\n)*?! begun at token q, the start of a line; 0: none
RECURSIVE SwitchBlockEnd(_, _)
SwitchBlockEnd(t, q) ==
    IF q > Len(t) THEN 0
    ELSE IF IsPrefix("!", t[q]) THEN q
    ELSE IF t[q] = IND /\ \E k \in (q + 1)..Len(t) : t[k] = NL
         THEN SwitchBlockEnd(t, 1 + CHOOSE k \in (q + 1)..Len(t) :
                                      t[k] = NL /\ \A r \in (q + 1)..(k - 1) : t[r] # NL)
    ELSE 0

\* (interface \S+\n(?: .*\n)*?!)
MatchSwitchBlockAt(t, i) ==
    IF /\ Adjacent(t, i, 2)
       /\ IsSuffix("interface", t[i])
       /\ i + 2 <= Len(t)
       /\ t[i + 2] = NL
    THEN LET e == SwitchBlockEnd(t, i + 3)
         IN  IF e = 0 THEN NoMatch
             ELSE Match(e, <<"interface">> \o SubSeq(t, i + 1, e - 1) \o <<"!">>)
    ELSE NoMatch

\* interface (\S+)
MatchSwitchInterfaceNameAt(t, i) ==
    IF Adjacent(t, i, 2) /\ IsSuffix("interface", t[i])
    THEN Match(i + 1, <<t[i + 1]>>)
    ELSE NoMatch

\* the last token of the line of token i
LineEnd(t, i) ==
    IF \E k \in i..Len(t) : t[k] = NL
    THEN (CHOOSE k \in i..Len(t) : t[k] = NL /\ \A r \in i..(k - 1) : t[r] # NL) - 1
    ELSE Len(t)

\* description (.+)$, re.MULTILINE
MatchSwitchDescriptionAt(t, i) ==
    IF Adjacent(t, i, 2) /\ IsSuffix("description", t[i])
    THEN Match(LineEnd(t, i), SubSeq(t, i + 1, LineEnd(t, i)))
    ELSE NoMatch

\* switchport mode (\S+)
MatchSwitchportModeAt(t, i) ==
    IF Adjacent(t, i, 3) /\ IsSuffix("switchport", t[i]) /\ t[i + 1] = "mode"
    THEN Match(i + 2, <<t[i + 2]>>)
    ELSE NoMatch

\* switchport access vlan (\S+)
MatchAccessVlanAt(t, i) ==
    IF /\ Adjacent(t, i, 4)
       /\ IsSuffix("switchport", t[i])
       /\ t[i + 1] = "access"
       /\ t[i + 2] = "vlan"
    THEN Match(i + 3, <<t[i + 3]>>)
    ELSE NoMatch

\* an interface dictionary that takes the address of the block as the router's does
SwitchInterfaceWithAddress(block) ==
    LET desc == Search(MatchSwitchDescriptionAt, block)
        ip == Search(MatchIpAddressAt, block)
    IN  [description |-> IF desc.ok THEN Strip(desc.groups) ELSE <<>>,
         mode |-> None,
         access_vlan |-> None,
         shutdown |-> \E i \in 1..Len(block) : IsSub("shutdown", block[i]),
         ip_address |-> IF ip.ok THEN ip.groups[1] ELSE None,
         subnet_mask |-> IF ip.ok THEN ip.groups[2] ELSE None]

\* the dictionary of one interface block (lines 18-40)
SwitchInterface(block) ==
    LET desc == Search(MatchSwitchDescriptionAt, block)
        mode == Search(MatchSwitchportModeAt, block)
        vlan == Search(MatchAccessVlanAt, block)
    IN  [description |-> IF desc.ok THEN Strip(desc.groups) ELSE <<>>,
         mode |-> IF mode.ok THEN mode.groups[1] ELSE None,
         access_vlan |-> IF vlan.ok THEN vlan.groups[1] ELSE None,
         shutdown |-> \E i \in 1..Len(block) : IsSub("shutdown", block[i])]

\* the loop over interface_blocks (lines 11-41)
RECURSIVE SwitchInterfaces(_, _)
SwitchInterfaces(dev, blocks) ==
    IF blocks = <<>> THEN dev
    ELSE LET block == Head(blocks)
             name == Search(MatchSwitchInterfaceNameAt, block)
             intf == SwitchInterface(block)
         IN  IF ~name.ok THEN SwitchInterfaces(dev, Tail(blocks))
             ELSE SwitchInterfaces(
                    [dev EXCEPT
                       !.interfaces = DictSet(@, name.groups[1], intf),
                       !.vlans = IF intf.access_vlan # None THEN @ \cup {intf.access_vlan}
                                 ELSE @],
                    Tail(blocks))

parse_switch_config(text, switch_device) ==
    LET hostname_match == Search(MatchSwitchHostnameAt, text)
        d1 == IF hostname_match.ok
              THEN [switch_device EXCEPT !.hostname = hostname_match.groups[1]]
              ELSE switch_device
    IN  SwitchInterfaces(d1, FindAll(MatchSwitchBlockAt, text))

----------------------------------------------------------------------------
(* ipaddress: IPv4Address, IPv4Network(strict=False), on octets *)

\* IPv4Address(w) does not raise ValueError
ValidAddress(w) == IsQuad(w) /\ \A k \in 1..4 : Quad(w)[k] \in 0..255

\* the leading one bits of an octet of a netmask; -1: the octet is not a run of ones
OctetOnes(o) ==
    CASE o = 0 -> 0 [] o = 128 -> 1 [] o = 192 -> 2 [] o = 224 -> 3 [] o = 240 -> 4
      [] o = 248 -> 5 [] o = 252 -> 6 [] o = 254 -> 7 [] o = 255 -> 8 [] OTHER -> -1

\* the prefix length of the netmask with octets m; -1: not a netmask
NetmaskPrefix(m) ==
    IF /\ \A k \in 1..4 : OctetOnes(m[k]) >= 0
       /\ \A k \in 1..3 : m[k] # 255 => m[k + 1] = 0
    THEN OctetOnes(m[1]) + OctetOnes(m[2]) + OctetOnes(m[3]) + OctetOnes(m[4])
    ELSE -1

\* _prefix_from_ip_string: a netmask, else a hostmask; -1: ValueError
MaskPrefix(w) ==
    IF ~ValidAddress(w) THEN -1
    ELSE IF NetmaskPrefix(Quad(w)) >= 0 THEN NetmaskPrefix(Quad(w))
    ELSE NetmaskPrefix([k \in 1..4 |-> 255 - Quad(w)[k]])

RECURSIVE Pow2(_)
Pow2(n) == IF n = 0 THEN 1 ELSE 2 * Pow2(n - 1)

\* what one unit of the network part is worth in octet k of a /prefixlen network
HostUnit(prefixlen, k) ==
    LET bits == prefixlen - 8 * (k - 1)
    IN  Pow2(8 - (IF bits < 0 THEN 0 ELSE IF bits > 8 THEN 8 ELSE bits))

\* IPv4Network(ip/mask, strict=False) does not raise ValueError
ValidNetwork(ip, mask) == ValidAddress(ip) /\ MaskPrefix(mask) >= 0

\* IPv4Network(ip/mask, strict=False): the host bits are cleared
IPv4Network(ip, mask) ==
    LET prefixlen == MaskPrefix(mask)
    IN  [addr |-> [k \in 1..4 |->
                      (Quad(ip)[k] \div HostUnit(prefixlen, k)) * HostUnit(prefixlen, k)],
         prefixlen |-> prefixlen]

\* IPv4Address(ip) in network
InNetwork(ip, network) ==
    \A k \in 1..4 :
        Quad(ip)[k] \div HostUnit(network.prefixlen, k)
            = network.addr[k] \div HostUnit(network.prefixlen, k)

----------------------------------------------------------------------------
(* networkx.Graph as build_topology uses it *)

\* an edge dictionary without the key network holds NoNetwork, without interface1 None
NoNetwork == [addr |-> <<>>, prefixlen |-> -1]
NoAttr == [interface1 |-> None, interface2 |-> None, network |-> NoNetwork]

\* nx.Graph(): nodes is a dictionary hostname -> attributes, edges a set of
\* [ends, data], ends being the set of the one or two hostnames the edge joins
EmptyGraph == [nodes |-> <<>>, edges |-> {}]

\* G.add_node(name, type=.., device_obj=..): device_obj is the device's place in the list
AddNode(G, name, type, device_obj) ==
    [G EXCEPT !.nodes = DictSet(@, name, [type |-> type, device_obj |-> device_obj])]

\* G.has_edge(u, v)
HasEdge(G, u, v) == \E e \in G.edges : e.ends = {u, v}

EdgeData(G, u, v) == (CHOOSE e \in G.edges : e.ends = {u, v}).data

\* the place of the node name in the order in which the nodes were added
NodePlace(G, name) == CHOOSE n \in 1..Len(G.nodes) : G.nodes[n][1] = name

\* G.edges(data=True): each edge once, as [u, v, data]; the nodes are gone through
\* in the order in which they were added, so u is the end that was added first
EdgesData(G) ==
    {[u |-> CHOOSE x \in e.ends : \A y \in e.ends : NodePlace(G, x) <= NodePlace(G, y),
      v |-> CHOOSE x \in e.ends : \A y \in e.ends : NodePlace(G, x) >= NodePlace(G, y),
      data |-> e.data] : e \in G.edges}

\* G.add_edge(u, v, **attr): the edge's dictionary is created or updated with attr
AddEdge(G, u, v, attr) ==
    LET old == IF HasEdge(G, u, v) THEN EdgeData(G, u, v) ELSE NoAttr
        data == [interface1 |-> IF attr.interface1 # None THEN attr.interface1
                                ELSE old.interface1,
                 interface2 |-> IF attr.interface2 # None THEN attr.interface2
                                ELSE old.interface2,
                 network |-> IF attr.network # NoNetwork THEN attr.network ELSE old.network]
    IN  [G EXCEPT !.edges = {e \in @ : e.ends # {u, v}} \cup {[ends |-> {u, v}, data |-> data]}]

----------------------------------------------------------------------------
(* topology.py: build_topology *)

\* props.get(key)
PropsGet(props, key) == IF key \in DOMAIN props THEN props[key] ELSE None

\* the truth value of props.get(key) for a string or None
HasValue(props, key) == PropsGet(props, key) # None

\* nodes only for the devices that have an interface
RECURSIVE AddNodesWithInterfaces(_, _, _)
AddNodesWithInterfaces(devs, G, i) ==
    IF i > Len(devs) THEN G
    ELSE AddNodesWithInterfaces(devs,
                                IF devs[i].interfaces = <<>> THEN G
                                ELSE AddNode(G, devs[i].hostname, devs[i].kind, i),
                                i + 1)

\* lines 14-16
RECURSIVE AddNodes(_, _, _)
AddNodes(devs, G, i) ==
    IF i > Len(devs) THEN G
    ELSE AddNodes(devs, AddNode(G, devs[i].hostname, devs[i].kind, i), i + 1)

\* the first interface of device2, from the k-th on, that has an address at all
RECURSIVE FirstAddressed(_, _, _)
FirstAddressed(interfaces2, network1, k) ==
    IF k > Len(interfaces2) THEN 0
    ELSE IF HasValue(interfaces2[k][2], "ip_address") THEN k
    ELSE FirstAddressed(interfaces2, network1, k + 1)

\* lines 30-42: the first interface of device2, from the k-th on, whose address is
\* in network1; 0: none (an address that raises ValueError is passed over)
RECURSIVE FirstInNetwork(_, _, _)
FirstInNetwork(interfaces2, network1, k) ==
    IF k > Len(interfaces2) THEN 0
    ELSE LET props2 == interfaces2[k][2]
         IN  IF /\ HasValue(props2, "ip_address")
                /\ ValidAddress(props2.ip_address)
                /\ InNetwork(props2.ip_address, network1)
             THEN k
             ELSE FirstInNetwork(interfaces2, network1, k + 1)

\* a loop over device2 without the test of line 29
OtherDeviceUnchecked(i, j) == TRUE

\* line 29
OtherDevice(i, j) == i # j

\* lines 28-42: the loop over device2 for interface k1 of device i
RECURSIVE LinkInterface(_, _, _, _, _, _)
LinkInterface(devs, G, i, k1, network1, j) ==
    IF j > Len(devs) THEN G
    ELSE LET k2 == IF OtherDevice(i, j)
                   THEN FirstInNetwork(devs[j].interfaces, network1, 1)
                   ELSE 0
             G2 == IF k2 = 0 THEN G
                   ELSE AddEdge(G, devs[i].hostname, devs[j].hostname,
                                [interface1 |-> devs[i].interfaces[k1][1],
                                 interface2 |-> devs[j].interfaces[k2][1],
                                 network |-> network1])
         IN  LinkInterface(devs, G2, i, k1, network1, j + 1)

\* lines 23-44: the loop over the interfaces of device i
RECURSIVE LinkDevice(_, _, _, _)
LinkDevice(devs, G, i, k1) ==
    IF k1 > Len(devs[i].interfaces) THEN G
    ELSE LET props1 == devs[i].interfaces[k1][2]
             G2 == IF /\ HasValue(props1, "ip_address")
                      /\ HasValue(props1, "subnet_mask")
                      /\ ValidNetwork(props1.ip_address, props1.subnet_mask)
                   THEN LinkInterface(devs, G, i, k1,
                            IPv4Network(props1.ip_address, props1.subnet_mask), 1)
                   ELSE G
         IN  LinkDevice(devs, G2, i, k1 + 1)

\* lines 22-44: link devices based on IP subnets
RECURSIVE SubnetPass(_, _, _)
SubnetPass(devs, G, i) ==
    IF i > Len(devs) THEN G
    ELSE SubnetPass(devs, LinkDevice(devs, G, i, 1), i + 1)

\* other_device.hostname.lower() in desc
Mentions(desc, hostname) ==
    \E n \in 1..Len(desc) : ~IsWS(desc[n]) /\ IsSub(Lower(hostname), Lower(desc[n]))

\* lines 52-58: the loop over other_device, which the first link made ends
RECURSIVE DescribeInterface(_, _, _, _, _)
DescribeInterface(devs, G, i, desc, j) ==
    IF j > Len(devs) THEN G
    ELSE IF /\ Mentions(desc, devs[j].hostname)
            /\ devs[j].hostname # devs[i].hostname
            /\ ~HasEdge(G, devs[i].hostname, devs[j].hostname)
         THEN AddEdge(G, devs[i].hostname, devs[j].hostname, NoAttr)
         ELSE DescribeInterface(devs, G, i, desc, j + 1)

\* lines 48-58: the loop over the interfaces of device i
RECURSIVE DescribeDevice(_, _, _, _)
DescribeDevice(devs, G, i, k) ==
    IF k > Len(devs[i].interfaces) THEN G
    ELSE LET desc == PropsGet(devs[i].interfaces[k][2], "description")
             G2 == IF desc # <<>> THEN DescribeInterface(devs, G, i, desc, 1) ELSE G
         IN  DescribeDevice(devs, G2, i, k + 1)

\* lines 47-58: fallback, use interface descriptions
RECURSIVE DescriptionPass(_, _, _)
DescriptionPass(devs, G, i) ==
    IF i > Len(devs) THEN G
    ELSE DescriptionPass(devs, DescribeDevice(devs, G, i, 1), i + 1)

SubnetGraph(devs) == SubnetPass(devs, AddNodes(devs, EmptyGraph, 1), 1)

\* a fallback pass that starts from the bare nodes and so drops the subnet links
build_topology_fallback_only(devs) ==
    DescriptionPass(devs, AddNodes(devs, EmptyGraph, 1), 1)

build_topology(devs) == DescriptionPass(devs, SubnetGraph(devs), 1)

----------------------------------------------------------------------------
(* Input texts *)

MaxDetectLines == 2
MaxRouterLines == 4

\* one line for each indicator of detect_device_type and each of its fallback hints
DetectLines ==
    {<<IND, "switchport", "mode", "access">>,
     <<IND, "Switchport", "mode", "trunk">>,
     <<"spanning-tree", "mode", "pvst">>,
     <<"vtp", "mode", "transparent">>,
     <<"vlan", "database">>,
     <<"show", "mac", "address-table">>,
     <<"router", "ospf", "1">>,
     <<"ROUTER", "OSPF", "1">>,
     <<"router", "bgp", "65000">>,
     <<"router", "eigrp", "100">>,
     <<"router", "rip">>,
     <<"ip", "route", "0.0.0.0", "0.0.0.0", "10.1.1.2">>,
     <<"ip", "route">>,
     <<"interface", "Serial0/0">>,
     <<"interface", "Tunnel0">>,
     <<"interface", "Vlan10">>,
     <<"interface", "Port-channel1">>,
     <<"interface", "GigabitEthernet0/1">>,
     <<IND, "ppp", "authentication", "chap">>,
     <<IND, "encapsulation", "frame-relay">>,
     <<IND, "ip", "nat", "inside">>,
     <<"crypto", "ipsec", "transform-set", "ts">>,
     <<"crypto", "map", "vpn", "10">>,
     <<IND, "description", "uplink">>,
     <<"hostname", "R1">>,
     <<"vlan", "10">>,
     <<"!">>}

DetectTexts == {Flatten(ls) : ls \in SeqsUpTo(DetectLines, MaxDetectLines)}

\* the lines of a router configuration that the routing passes read
RouterLines ==
    {<<"ip", "route", "0.0.0.0", "0.0.0.0", "10.1.1.2">>,
     <<"ip", "route", "10.2.0.0", "255.255.0.0", "10.1.1.2">>,
     <<"ip", "route", "10.3.0.0", "255.255.0.0", "10.1.1.1", "250">>,
     <<"router", "ospf", "1">>,
     <<IND, "network", "10.1.1.0", "0.0.0.3", "area", "0">>,
     <<"router", "bgp", "65000">>,
     <<"!">>}

\* section 8 of the specification: the R1 example
ExampleR1 ==
    <<"hostname", "R1", NL,
      "interface", "Serial0/0", NL,
      IND, "ip", "address", "10.1.1.1", "255.255.255.252", NL,
      "!", NL,
      "router", "ospf", "1", NL,
      IND, "network", "10.1.1.0", "0.0.0.3", "area", "0", NL,
      "!">>

RouterTexts ==
    {Flatten(ls) : ls \in SeqsUpTo(RouterLines, MaxRouterLines)} \cup {ExampleR1}

\* the lines of a text, without their line breaks
RECURSIVE SplitLines(_)
SplitLines(t) ==
    IF t = <<>> THEN <<>>
    ELSE IF \E i \in 1..Len(t) : t[i] = NL
         THEN LET i == CHOOSE i \in 1..Len(t) : t[i] = NL /\ \A k \in 1..(i - 1) : t[k] # NL
              IN  <<SubSeq(t, 1, i - 1)>> \o SplitLines(SubSeq(t, i + 1, Len(t)))
         ELSE <<t>>

----------------------------------------------------------------------------
(* Input device lists *)

MaxDevices == 3

Hostnames == {"R1", "R2", "SW1"}

\* an interface dictionary as parse_router_config makes it
RouterProps(ip_address, subnet_mask, description) ==
    [description |-> description, ip_address |-> ip_address, subnet_mask |-> subnet_mask,
     shutdown |-> FALSE, bandwidth |-> None, duplex |-> None, speed |-> None,
     encapsulation |-> None, vrf |-> None, secondary_ips |-> <<>>]

\* an interface dictionary as parse_switch_config makes it
SwitchProps(description) ==
    [description |-> description, mode |-> None, access_vlan |-> None, shutdown |-> FALSE]

\* the interfaces dictionaries a device of the list may hold
InterfaceMaps ==
    {<<>>,
     <<<<"Gi0/0", RouterProps("10.0.0.1", "255.255.255.252", <<"Link", "to", "R2">>)>>>>,
     <<<<"Gi0/1", RouterProps("10.0.0.2", None, <<>>)>>>>,
     <<<<"Gi0/2", RouterProps("10.0.0.2", "255.255.255.0", <<"to", "r1", "and", "SW1">>)>>>>,
     <<<<"Gi0/3", RouterProps("10.0.0.999", "255.255.255.252", <<>>)>>,
       <<"Gi0/4", RouterProps("10.0.0.6", "255.0.255.0", <<>>)>>,
       <<"Gi0/0", RouterProps("10.0.1.1", "255.255.255.0", <<>>)>>,
       <<"Gi0/1", RouterProps("10.0.1.2", "0.0.0.3", <<>>)>>>>,
     <<<<"Fa0/1", SwitchProps(<<"uplink", "R1-R2", "sw1">>)>>>>}

NewDevice(hostname, interfaces) ==
    [(IF hostname = "SW1" THEN Switch ELSE Router) EXCEPT
        !.hostname = hostname, !.interfaces = interfaces]

Devices == {NewDevice(h, m) : h \in Hostnames, m \in InterfaceMaps}

DeviceLists == SeqsUpTo(Devices, MaxDevices)

----------------------------------------------------------------------------
(* Topology inference over one device list *)

InitTopology ==
    /\ pc = "start"
    /\ config_text = <<>>
    /\ device_type = None
    /\ device = None
    /\ config_files = <<>>
    /\ file_idx = 0
    /\ all_devices = <<>>
    /\ all_findings = <<>>
    /\ all_recommendations = <<>>
    /\ error = None
    /\ device_list \in DeviceLists
    /\ graph = None

\* a call that consumes its input: it leaves every device without interfaces
BuildTopologyConsuming ==
    /\ pc = "start"
    /\ graph' = build_topology(device_list)
    /\ device_list' = [i \in 1..Len(device_list) |->
                          [device_list[i] EXCEPT !.interfaces = <<>>]]
    /\ pc' = "done"
    /\ UNCHANGED <<config_text, device_type, device, config_files, file_idx,
                   all_devices, all_findings, all_recommendations, error>>

\* G = build_topology(device_list): no statement of lines 7-60 assigns to a device
BuildTopology ==
    /\ pc = "start"
    /\ graph' = build_topology(device_list)
    /\ pc' = "done"
    /\ UNCHANGED <<config_text, device_type, device, config_files, file_idx,
                   all_devices, all_findings, all_recommendations, error, device_list>>

SpecTopology == InitTopology /\ [][BuildTopology]_vars

----------------------------------------------------------------------------
(* Extraction of one router text *)

InitRouter ==
    /\ pc = "start"
    /\ config_text \in RouterTexts
    /\ device_type = None
    /\ device = Router
    /\ config_files = <<>>
    /\ file_idx = 0
    /\ all_devices = <<>>
    /\ all_findings = <<>>
    /\ all_recommendations = <<>>
    /\ error = None
    /\ device_list = <<>>
    /\ graph = None

ParseRouter ==
    /\ pc = "start"
    /\ device' = parse_router_config(config_text, device)
    /\ pc' = "done"
    /\ UNCHANGED <<config_text, device_type, config_files, file_idx, all_devices,
                   all_findings, all_recommendations, error, device_list, graph>>

SpecRouter == InitRouter /\ [][ParseRouter]_vars

----------------------------------------------------------------------------
(* Classification of one text *)

InitDetect ==
    /\ pc = "start"
    /\ config_text \in DetectTexts
    /\ device_type = None
    /\ device = None
    /\ config_files = <<>>
    /\ file_idx = 0
    /\ all_devices = <<>>
    /\ all_findings = <<>>
    /\ all_recommendations = <<>>
    /\ error = None
    /\ device_list = <<>>
    /\ graph = None

Detect ==
    /\ pc = "start"
    /\ device_type' = detect_device_type(config_text)
    /\ pc' = "done"
    /\ UNCHANGED <<config_text, device, config_files, file_idx, all_devices,
                   all_findings, all_recommendations, error, device_list, graph>>

SpecDetect == InitDetect /\ [][Detect]_vars

----------------------------------------------------------------------------
(* Extraction of one text by either extractor, twice, each time into a fresh device *)

MaxBodyLines == 2

\* the lines before the interface stanza
HeadLines ==
    {<<>>,
     <<<<"hostname", "SW1">>>>,
     <<<<"HOSTNAME", "SW1">>>>}

\* the line that opens the stanza
StanzaLine == <<"interface", "Serial0/0">>

\* the command lines of the stanza
BodyLines ==
    {<<IND, "ip", "address", "10.1.1.1", "255.255.255.252">>,
     <<IND, "ip", "address", "10.0.1.1", "255.255.255.0", "secondary">>,
     <<IND, "description", "Link", "to", "R2">>,
     <<IND, "description", "shutdown", "pending">>,
     <<IND, "shutdown">>,
     <<IND, "no", "shutdown">>}

Bodies == SeqsUpTo(BodyLines, MaxBodyLines)

\* what ends the stanza: a terminator line, an end line, or nothing
Terminators == {<<<<"!">>>>, <<<<"end">>>>, <<>>}

\* the lines after the stanza
TailLines ==
    {<<>>,
     <<<<"ip", "route", "0.0.0.0", "0.0.0.0", "10.1.1.2">>,
       <<"interface", "Vlan10">>, <<"!">>>>,
     <<<<"hostname", "R2">>, <<"router", "ospf", "1">>,
       <<IND, "passive-interface", "default">>, <<"!">>>>,
     <<<<"router", "bgp", "65000">>, <<IND, "neighbor", "10.1.1.2", "shutdown">>,
       <<"!">>>>}

ExtractTexts ==
    {Flatten(head \o tail) : head \in HeadLines, tail \in TailLines}
    \cup {Flatten(head \o <<StanzaLine>> \o body \o terminator \o tail) :
             head \in HeadLines, body \in Bodies,
             terminator \in Terminators, tail \in TailLines}

\* an extraction into the device that the call before has filled
ReusedDevice(kind, previous) == previous

\* Router(), Switch(): a new device for each call
FreshDevice(kind, previous) == IF kind = "Router" THEN Router ELSE Switch

InitExtract ==
    /\ pc = "start"
    /\ config_text \in ExtractTexts
    /\ device_type = None
    /\ device \in {Router, Switch}
    /\ config_files = <<>>
    /\ file_idx = 0
    /\ all_devices = <<>>
    /\ all_findings = <<>>
    /\ all_recommendations = <<>>
    /\ error = None
    /\ device_list = <<>>
    /\ graph = None

\* one call of the extractor of the device's variant; all_devices keeps the results
ExtractRouter ==
    /\ pc \in {"start", "once"}
    /\ device.kind = "Router"
    /\ device' = parse_router_config(config_text, FreshDevice("Router", device))
    /\ all_devices' = Append(all_devices, device')
    /\ pc' = IF pc = "start" THEN "once" ELSE "done"
    /\ UNCHANGED <<config_text, device_type, config_files, file_idx, all_findings,
                   all_recommendations, error, device_list, graph>>

ExtractSwitch ==
    /\ pc \in {"start", "once"}
    /\ device.kind = "Switch"
    /\ device' = parse_switch_config(config_text, FreshDevice("Switch", device))
    /\ all_devices' = Append(all_devices, device')
    /\ pc' = IF pc = "start" THEN "once" ELSE "done"
    /\ UNCHANGED <<config_text, device_type, config_files, file_idx, all_findings,
                   all_recommendations, error, device_list, graph>>

SpecExtract == InitExtract /\ [][ExtractRouter \/ ExtractSwitch]_vars

----------------------------------------------------------------------------
(* config_validator.py *)

Finding(type, component, hostname, interface) ==
    [type |-> type, component |-> component, hostname |-> hostname,
     interface |-> interface]

\* any(word in props['description'].lower() for word in ['rtr', 'router', 'to r'])
NamesRouter(description) ==
    LET d == LowerText(description)
    IN  \/ \E k \in 1..Len(d) : IsSub("rtr", d[k]) \/ IsSub("router", d[k])
        \/ \E k \in 1..(Len(d) - 1) : IsSuffix("to", d[k]) /\ IsPrefix("r", d[k + 1])

\* lines 13-25, for one interface of a switch
SwitchInterfaceFindings(hostname, intf_name, props) ==
    (IF props.description # <<>> /\ NamesRouter(props.description) /\ props.mode = "access"
     THEN <<Finding("WARNING", "Interface Configuration", hostname, intf_name)>>
     ELSE <<>>)
    \o (IF ~props.shutdown /\ props.mode = None /\ props.description = <<>>
        THEN <<Finding("INFO", "Security", hostname, intf_name)>>
        ELSE <<>>)

\* lines 33-48, for one interface of a router
RouterInterfaceFindings(hostname, intf_name, props) ==
    (IF /\ ~props.shutdown
        /\ props.ip_address = None
        /\ ~IsPrefix("serial", Lower(intf_name))
     THEN <<Finding("INFO", "IP Configuration", hostname, intf_name)>>
     ELSE <<>>)
    \o (IF props.description = <<>> /\ ~props.shutdown
        THEN <<Finding("INFO", "Documentation", hostname, intf_name)>>
        ELSE <<>>)

\* the loops over device.interfaces.items() (lines 12 and 32), from entry k on
RECURSIVE InterfaceFindings(_, _)
InterfaceFindings(dev, k) ==
    IF k > Len(dev.interfaces) THEN <<>>
    ELSE LET intf_name == dev.interfaces[k][1]
             props == dev.interfaces[k][2]
         IN  (IF dev.kind = "Switch"
              THEN SwitchInterfaceFindings(dev.hostname, intf_name, props)
              ELSE RouterInterfaceFindings(dev.hostname, intf_name, props))
             \o InterfaceFindings(dev, k + 1)

validate_config(dev) ==
    IF dev.kind = "Switch" THEN InterfaceFindings(dev, 1)
    ELSE IF dev.kind = "Router"
    THEN LET has_default_route ==
                 \E k \in 1..Len(dev.routes) : dev.routes[k].network = "0.0.0.0"
         IN  InterfaceFindings(dev, 1)
             \o (IF dev.routing_protocols = <<>> /\ Len(dev.routes) > 5
                 THEN <<Finding("RECOMMENDATION", "Routing", dev.hostname, None)>>
                 ELSE <<>>)
             \o (IF ~has_default_route
                 THEN <<Finding("INFO", "Routing", dev.hostname, None)>>
                 ELSE <<>>)
    ELSE <<>>

\* 'ospf' in proto, 'bgp' in proto: a tag is ospf_<id> or bgp_<asn>
TagOf(name, proto) == \E id \in DigitWords : proto = name \o "_" \o id

Recommendation(hostname, advice) == [hostname |-> hostname, advice |-> advice]

generate_recommendations(dev) ==
    IF dev.kind = "Switch"
    THEN IF dev.stp_mode = "pvst"
         THEN <<Recommendation(dev.hostname, "rapid-pvst")>>
         ELSE <<>>
    ELSE IF dev.kind = "Router"
    THEN (IF /\ Len(dev.routes) > 10
             /\ ~\E k \in 1..Len(dev.routing_protocols) :
                    TagOf("ospf", dev.routing_protocols[k])
          THEN <<Recommendation(dev.hostname, "ospf")>>
          ELSE <<>>)
         \o (IF /\ Len(dev.routes) > 50
                /\ ~\E k \in 1..Len(dev.routing_protocols) :
                       TagOf("bgp", dev.routing_protocols[k])
             THEN <<Recommendation(dev.hostname, "bgp")>>
             ELSE <<>>)
    ELSE <<>>

----------------------------------------------------------------------------
(* config_parser.py: parse_any_config *)

\* the value None where a device may stand
NoDevice == [kind |-> None]

\* how a call ends: with a return value, or with an exception
Returned(device_obj) == [raised |-> None, device_obj |-> device_obj]
Raised(exception) == [raised |-> exception, device_obj |-> NoDevice]

\* not config_text.strip()
IsBlankText(text) == \A i \in 1..Len(text) : IsWS(text[i])

\* a parse_any_config without the two except clauses of lines 34 and 43
parse_any_config_propagating(file) ==
    IF ~file.exists THEN Returned(NoDevice)
    ELSE IF IsBlankText(file.text) THEN Returned(NoDevice)
    ELSE LET dtype == detect_device_type(file.text)
         IN  IF dtype = "switch"
             THEN IF file.extractor_raises THEN Raised("Exception")
                  ELSE Returned(parse_switch_config(file.text, Switch))
             ELSE IF dtype = "router"
             THEN IF file.extractor_raises THEN Raised("Exception")
                  ELSE Returned(parse_router_config(file.text, Router))
             ELSE Raised("NameError")

\* a file is a record: whether open() finds it, its text, and whether the extractor
\* chosen for it ends with an exception.  The last branch (lines 47-49) calls
\* os.path.basename, and the module never imports os: the call raises NameError
parse_any_config(file) ==
    IF ~file.exists THEN Returned(NoDevice)
    ELSE IF IsBlankText(file.text) THEN Returned(NoDevice)
    ELSE LET dtype == detect_device_type(file.text)
         IN  IF dtype = "switch"
             THEN IF file.extractor_raises THEN Returned(NoDevice)
                  ELSE Returned(parse_switch_config(file.text, Switch))
             ELSE IF dtype = "router"
             THEN IF file.extractor_raises THEN Returned(NoDevice)
                  ELSE Returned(parse_router_config(file.text, Router))
             ELSE Raised("NameError")

----------------------------------------------------------------------------
(* Input files *)

MaxFiles == 3

File(exists, text, extractor_raises) ==
    [exists |-> exists, text |-> text, extractor_raises |-> extractor_raises]

TextR1 == ExampleR1 \o <<NL>>

TextR2 ==
    <<"hostname", "R2", NL,
      "interface", "Serial0/0", NL,
      IND, "description", "Link", "to", "R1", NL,
      IND, "ip", "address", "10.1.1.2", "255.255.255.252", NL,
      "!", NL,
      "ip", "route", "0.0.0.0", "0.0.0.0", "10.1.1.1", NL,
      "!", NL>>

TextSW1 ==
    <<"hostname", "SW1", NL,
      "interface", "FastEthernet0/1", NL,
      IND, "description", "uplink", "to", "R1", NL,
      IND, "switchport", "mode", "access", NL,
      "!", NL,
      "interface", "Vlan10", NL,
      IND, "ip", "address", "10.1.1.2", "255.255.255.252", NL,
      "!", NL>>

\* a router text that carries the hostname of the switch
TextSW1Router ==
    <<"hostname", "SW1", NL,
      "interface", "Serial0/0", NL,
      IND, "ip", "address", "10.1.1.2", "255.255.255.252", NL,
      "!", NL>>

\* no indicator of either kind
TextR3 == <<"hostname", "R3", NL>>

Files ==
    {File(FALSE, <<>>, FALSE),
     File(TRUE, <<>>, FALSE),
     File(TRUE, TextR1, FALSE),
     File(TRUE, TextR2, FALSE),
     File(TRUE, TextR2, TRUE),
     File(TRUE, TextSW1, FALSE),
     File(TRUE, TextSW1, TRUE),
     File(TRUE, TextSW1Router, FALSE),
     File(TRUE, TextR3, FALSE)}

FileLists == SeqsUpTo(Files, MaxFiles)

\* line 195, device = parse_any_config(config_file): the call depends on the file
\* alone, so its outcome is kept for each file of the catalogue
ParsedFile == [file \in Files |-> parse_any_config(file)]

----------------------------------------------------------------------------
(* main.py: the loop over the files and the topology step *)

Init ==
    /\ pc = "start"
    /\ config_text = <<>>
    /\ device_type = None
    /\ device = NoDevice
    /\ config_files \in FileLists
    /\ file_idx = 0
    /\ all_devices = <<>>
    /\ all_findings = <<>>
    /\ all_recommendations = <<>>
    /\ error = None
    /\ device_list = <<>>
    /\ graph = None

\* lines 178-186: without files the run ends
Start ==
    /\ pc = "start"
    /\ pc' = IF config_files = <<>> THEN "done" ELSE "loop"
    /\ UNCHANGED <<config_text, device_type, device, config_files, file_idx,
                   all_devices, all_findings, all_recommendations, error,
                   device_list, graph>>

\* lines 188-205: one round of the loop; an exception of parse_any_config ends the run
AnalyzeFile ==
    /\ pc = "loop"
    /\ file_idx < Len(config_files)
    /\ LET result == ParsedFile[config_files[file_idx + 1]]
       IN  IF result.raised # None
           THEN /\ pc' = "crashed"
                /\ error' = result.raised
                /\ UNCHANGED <<device, file_idx, all_devices, all_findings,
                               all_recommendations>>
           ELSE /\ device' = result.device_obj
                /\ file_idx' = file_idx + 1
                /\ IF result.device_obj = NoDevice
                   THEN UNCHANGED <<all_devices, all_findings, all_recommendations>>
                   ELSE /\ all_findings' =
                              all_findings \o validate_config(result.device_obj)
                        /\ all_recommendations' =
                              all_recommendations
                                 \o generate_recommendations(result.device_obj)
                        /\ all_devices' = Append(all_devices, result.device_obj)
                /\ UNCHANGED <<pc, error>>
    /\ UNCHANGED <<config_text, device_type, config_files, device_list, graph>>

\* a topology step inside the loop: it runs as soon as two devices are there
GenerateTopologyEarly ==
    /\ pc = "loop"
    /\ Len(all_devices) > 1
    /\ device_list' = all_devices
    /\ graph' = build_topology(all_devices)
    /\ pc' = IF file_idx = Len(config_files) THEN "done" ELSE "loop"
    /\ UNCHANGED <<config_text, device_type, device, config_files, file_idx,
                   all_devices, all_findings, all_recommendations, error>>

\* lines 226-297: after the loop, the summary and, for two devices or more, the topology
GenerateTopology ==
    /\ pc = "loop"
    /\ file_idx = Len(config_files)
    /\ IF Len(all_devices) > 1
       THEN /\ device_list' = all_devices
            /\ graph' = build_topology(all_devices)
       ELSE UNCHANGED <<device_list, graph>>
    /\ pc' = "done"
    /\ UNCHANGED <<config_text, device_type, device, config_files, file_idx,
                   all_devices, all_findings, all_recommendations, error>>

Next == Start \/ AnalyzeFile \/ GenerateTopology

Spec == Init /\ [][Next]_vars

----------------------------------------------------------------------------
(* Claims about parse_router_config, under SpecRouter *)

\* the text's lines that are static routes, read line by line
IsIpRouteLine(l) ==
    Len(l) >= 5 /\ l[1] = "ip" /\ l[2] = "route" /\ IsQuad(l[3]) /\ IsQuad(l[4])
IsDefaultRouteLine(l) == IsIpRouteLine(l) /\ l[3] = "0.0.0.0" /\ l[4] = "0.0.0.0"
IsOtherRouteLine(l) == IsIpRouteLine(l) /\ ~IsDefaultRouteLine(l)

IsStaticDefaultEntry(r) == r.type = "static_default"
IsStaticEntry(r) == r.type = "static"

\* C1: every default-route line yields one static_default entry and no static entry,
\* every other ip route line one static entry, so the static and static_default
\* entries are as many as the ip route lines.
C1_OneEntryPerRouteLine ==
    pc = "done" =>
        /\ CountIn(device.routes, IsStaticDefaultEntry)
              = CountIn(SplitLines(config_text), IsDefaultRouteLine)
        /\ CountIn(device.routes, IsStaticEntry)
              = CountIn(SplitLines(config_text), IsOtherRouteLine)

\* the indented lines that follow line n: the body of the stanza line n opens
RECURSIVE StanzaBody(_, _)
StanzaBody(lines, n) ==
    IF n + 1 <= Len(lines) /\ lines[n + 1] # <<>> /\ lines[n + 1][1] = IND
    THEN {n + 1} \cup StanzaBody(lines, n + 1)
    ELSE {}

IsRoutingLine(proto, l) ==
    Len(l) = 3 /\ l[1] = "router" /\ l[2] = proto /\ l[3] \in DigitWords

\* the stanza that line n opens is closed by a `!` line
StanzaClosed(lines, n) ==
    \E c \in (n + 1)..Len(lines) :
        lines[c] = <<"!">> /\ \A b \in (n + 1)..(c - 1) : b \in StanzaBody(lines, n)

IsNetworkLine(l) ==
    /\ Len(l) = 6
    /\ l[1] = IND
    /\ l[2] = "network"
    /\ IsQuad(l[3])
    /\ IsQuad(l[4])
    /\ l[5] = "area"
    /\ l[6] \in DigitWords

\* C2: a `router ospf <id>` stanza (closed by a `!` line) sets ospf_process_id, adds
\* the tag ospf_<id> and yields one ospf route for each of its network lines.
C2_OspfStanzaRecorded ==
    pc = "done" =>
        LET lines == SplitLines(config_text)
        IN  \A n \in 1..Len(lines) :
                IsRoutingLine("ospf", lines[n]) /\ StanzaClosed(lines, n) =>
                    /\ device.ospf_process_id # None
                    /\ \E m \in 1..Len(lines) :
                          /\ IsRoutingLine("ospf", lines[m])
                          /\ device.ospf_process_id = lines[m][3]
                    /\ ("ospf_" \o lines[n][3]) \in Range(device.routing_protocols)
                    /\ \A b \in StanzaBody(lines, n) :
                          IsNetworkLine(lines[b]) =>
                              Route(lines[b][3], lines[b][4], "ospf", None, lines[b][6], None)
                                  \in Range(device.routes)

\* C3: a `router bgp <asn>` stanza (closed by a `!` line) sets bgp_asn and adds the
\* tag bgp_<asn>.
C3_BgpStanzaRecorded ==
    pc = "done" =>
        LET lines == SplitLines(config_text)
        IN  \A n \in 1..Len(lines) :
                IsRoutingLine("bgp", lines[n]) /\ StanzaClosed(lines, n) =>
                    /\ \E m \in 1..Len(lines) :
                          /\ IsRoutingLine("bgp", lines[m])
                          /\ device.bgp_asn = lines[m][3]
                    /\ ("bgp_" \o lines[n][3]) \in Range(device.routing_protocols)

----------------------------------------------------------------------------
(* Claims about the two extractors, under SpecExtract *)

\* the places of the text where the word hostname, in any case, is followed by a token
HostnamePlaces(text) ==
    {i \in 1..(Len(text) - 1) : Lower(text[i]) = "hostname" /\ ~IsWS(text[i + 1])}

\* the token of the first `hostname <token>`; "Unknown" when the text has none
FirstHostname(text) ==
    IF HostnamePlaces(text) = {} THEN "Unknown"
    ELSE text[(CHOOSE i \in HostnamePlaces(text) :
                  \A k \in HostnamePlaces(text) : i <= k) + 1]

\* C12: after either extractor the hostname is the token of the first
\* `hostname <token>` of the text, whatever the case of the keyword, and "Unknown"
\* when the text has none.
C12_HostnameFirstMatch ==
    pc # "start" => device.hostname = FirstHostname(config_text)

\* a line that opens an interface stanza
IsInterfaceLine(l) == Len(l) = 2 /\ Lower(l[1]) = "interface"

HasInterfaceStanza(text) ==
    \E n \in 1..Len(SplitLines(text)) : IsInterfaceLine(SplitLines(text)[n])

\* the variant that parse_any_config chooses for the text
VariantOf(text) ==
    CASE detect_device_type(text) = "switch" -> "Switch"
      [] detect_device_type(text) = "router" -> "Router"
      [] OTHER -> None

\* C13: for a text without an interface stanza either extractor leaves the interfaces
\* mapping empty, and parse_any_config returns that device when the text is not empty
\* and classifies as the device's variant.
C13_NoStanzaNoInterface ==
    (pc # "start" /\ ~HasInterfaceStanza(config_text)) =>
        /\ device.interfaces = <<>>
        /\ (~IsBlankText(config_text) /\ VariantOf(config_text) = device.kind) =>
              parse_any_config(File(TRUE, config_text, FALSE)) = Returned(device)

InterfaceNames(text) ==
    {SplitLines(text)[n][2] :
        n \in {m \in 1..Len(SplitLines(text)) : IsInterfaceLine(SplitLines(text)[m])}}

\* C18: after extraction the keys of the device's interfaces are exactly the names on
\* the interface lines of the text, whatever ends a stanza (a terminator, the next
\* interface line, end, or the end of the text), and nothing else makes a key.
C18_KeysAreInterfaceLines ==
    pc # "start" => DictKeys(device.interfaces) = InterfaceNames(config_text)

\* the place of the first interface line of the text; 0: none
FirstInterfaceLine(text) ==
    LET lines == SplitLines(text)
        places == {n \in 1..Len(lines) : IsInterfaceLine(lines[n])}
    IN  IF places = {} THEN 0 ELSE CHOOSE n \in places : \A m \in places : n <= m

\* the place of the `!` line that ends the stanza of the first interface line, no
\* other interface line coming before it; 0: none
FirstTerminator(text) ==
    LET lines == SplitLines(text)
        first == FirstInterfaceLine(text)
        ends == {n \in (first + 1)..Len(lines) :
                    lines[n] = <<"!">> \/ IsInterfaceLine(lines[n])}
        n0 == CHOOSE n \in ends : \A m \in ends : n <= m
    IN  IF first = 0 \/ ends = {} THEN 0
        ELSE IF lines[n0] = <<"!">> THEN n0 ELSE 0

\* the text up to the terminator of its first stanza
ThroughFirstStanza(text) == Flatten(SubSeq(SplitLines(text), 1, FirstTerminator(text)))

InterfaceFields ==
    {"shutdown", "description", "ip_address", "subnet_mask", "bandwidth", "duplex", "speed"}

\* C19: a router interface record depends on the lines of its own stanza only: a
\* text and the same text cut after the terminator of the stanza give the same
\* shutdown, description, ip_address, subnet_mask, bandwidth, duplex and speed.
C19_RecordFromOwnStanza ==
    (pc # "start" /\ device.kind = "Router" /\ FirstTerminator(config_text) # 0) =>
        LET name == SplitLines(config_text)[FirstInterfaceLine(config_text)][2]
            alone == parse_router_config(ThroughFirstStanza(config_text), Router)
        IN  (/\ name \in DictKeys(device.interfaces)
             /\ name \in DictKeys(alone.interfaces)) =>
                \A field \in InterfaceFields :
                    DictGet(device.interfaces, name)[field]
                        = DictGet(alone.interfaces, name)[field]

\* the stanza of the first interface line has a shutdown command line
HasShutdownLine(text) ==
    \E n \in (FirstInterfaceLine(text) + 1)..(FirstTerminator(text) - 1) :
        SplitLines(text)[n] = <<IND, "shutdown">>

\* C20: after extraction an interface's shutdown flag is true exactly when its stanza
\* has a shutdown command line; `no shutdown` and a description with the word
\* shutdown leave it false. Stated for a stanza that ends the text, so that no later
\* line can be taken for a line of the stanza.
C20_ShutdownFlag ==
    (/\ pc # "start"
     /\ FirstTerminator(config_text) # 0
     /\ FirstTerminator(config_text) = Len(SplitLines(config_text))) =>
        LET name == SplitLines(config_text)[FirstInterfaceLine(config_text)][2]
        IN  name \in DictKeys(device.interfaces) =>
                (DictGet(device.interfaces, name).shutdown = HasShutdownLine(config_text))

\* the lines of the stanza of the first interface line, between that line and its
\* terminator
FirstStanzaLines(text) ==
    SubSeq(SplitLines(text), FirstInterfaceLine(text) + 1, FirstTerminator(text) - 1)

IsPrimaryLine(l) == Len(l) = 5 /\ l[1] = IND /\ l[2] = "ip" /\ l[3] = "address"

IsSecondaryLine(l) ==
    Len(l) = 6 /\ l[1] = IND /\ l[2] = "ip" /\ l[3] = "address" /\ l[6] = "secondary"

\* one {ip, mask} entry for each secondary line, in text order
SecondaryEntries(ls) ==
    LET sec == SelectSeq(ls, IsSecondaryLine)
    IN  [n \in 1..Len(sec) |-> [ip |-> sec[n][4], mask |-> sec[n][5]]]

\* C21: after parse_router_config the record of a stanza holds in secondary_ips one
\* entry for each of its secondary address lines, in text order, and in ip_address
\* and subnet_mask the values of its primary address line, both absent when the
\* stanza has no primary address line.
C21_AddressesOfStanza ==
    (pc # "start" /\ device.kind = "Router" /\ FirstTerminator(config_text) # 0) =>
        LET name == SplitLines(config_text)[FirstInterfaceLine(config_text)][2]
            ls == FirstStanzaLines(config_text)
            primary == SelectSeq(ls, IsPrimaryLine)
        IN  name \in DictKeys(device.interfaces) =>
                LET props == DictGet(device.interfaces, name)
                IN  /\ props.secondary_ips = SecondaryEntries(ls)
                    /\ props.ip_address = IF primary = <<>> THEN None ELSE primary[1][4]
                    /\ props.subnet_mask = IF primary = <<>> THEN None ELSE primary[1][5]

IsDescriptionLine(l) == Len(l) >= 3 /\ l[1] = IND /\ Lower(l[2]) = "description"

\* the words of the first description line of the lines ls, after the keyword
FirstDescription(ls) ==
    LET found == SelectSeq(ls, IsDescriptionLine)
    IN  IF found = <<>> THEN <<>> ELSE SubSeq(found[1], 3, Len(found[1]))

\* C22: after parse_router_config an interface's description is the text of the
\* first description line of its stanza; the commands that follow that line in the
\* stanza are no part of it. Stated for a stanza that ends the text.
C22_DescriptionIsOneLine ==
    (/\ pc # "start"
     /\ device.kind = "Router"
     /\ FirstTerminator(config_text) # 0
     /\ FirstTerminator(config_text) = Len(SplitLines(config_text))) =>
        LET name == SplitLines(config_text)[FirstInterfaceLine(config_text)][2]
        IN  name \in DictKeys(device.interfaces) =>
                DictGet(device.interfaces, name).description
                    = FirstDescription(FirstStanzaLines(config_text))

----------------------------------------------------------------------------
(* Claims about detect_device_type, under SpecDetect *)

HasIndicator(inds, text) ==
    \E k \in 1..Len(inds) : Occurs(inds[k], LowerText(text))

\* C6: a text with a switch indicator and no router indicator is a switch, one with
\* a router indicator and no switch indicator a router, whatever the case of its letters.
C6_StrongIndicatorDecides ==
    pc = "done" =>
        /\ (HasIndicator(switch_indicators, config_text)
              /\ ~HasIndicator(router_indicators, config_text)) => device_type = "switch"
        /\ (HasIndicator(router_indicators, config_text)
              /\ ~HasIndicator(switch_indicators, config_text)) => device_type = "router"

\* a text whose only indicator is written with a capital letter was classified
C6_Witness ==
    /\ pc = "done"
    /\ device_type = "switch"
    /\ "Switchport" \in Range(config_text)
    /\ "switchport" \notin Range(config_text)
    /\ Score(switch_indicators, LowerText(config_text)) = 1
    /\ ~HasIndicator(router_indicators, config_text)

\* the text has one of the interface types, in any case of letters
HasHint(kinds, text) ==
    \E kind \in kinds : Occurs(Ind(<<"interface", kind>>, FALSE), LowerText(text))

\* C23: detect_device_type returns one of switch, router, unknown for every text and
\* decides in this order: the strictly higher indicator score wins; on equal scores
\* a routing-protocol keyword without a switch keyword gives router and a switch
\* keyword without a routing-protocol keyword gives switch; then interface serial or
\* tunnel gives router, else interface vlan or port-channel gives switch, else
\* unknown.
C23_DecisionOrder ==
    pc = "done" =>
        LET switch_score == Score(switch_indicators, LowerText(config_text))
            router_score == Score(router_indicators, LowerText(config_text))
            routing == AnyOccurs({"ospf", "bgp", "eigrp", "rip"}, LowerText(config_text))
            switching == AnyOccurs({"vlan", "switchport"}, LowerText(config_text))
            tie == router_score = switch_score
            undecided == tie /\ (routing <=> switching)
        IN  /\ device_type \in {"switch", "router", "unknown"}
            /\ router_score > switch_score => device_type = "router"
            /\ switch_score > router_score => device_type = "switch"
            /\ (tie /\ routing /\ ~switching) => device_type = "router"
            /\ (tie /\ switching /\ ~routing) => device_type = "switch"
            /\ (undecided /\ HasHint({"serial", "tunnel"}, config_text)) =>
                  device_type = "router"
            /\ (/\ undecided
                /\ ~HasHint({"serial", "tunnel"}, config_text)
                /\ HasHint({"vlan", "port-channel"}, config_text)) => device_type = "switch"
            /\ (/\ undecided
                /\ ~HasHint({"serial", "tunnel"}, config_text)
                /\ ~HasHint({"vlan", "port-channel"}, config_text)) =>
                  device_type = "unknown"

\* equal scores, a routing-protocol keyword and no switch keyword: the text is a
\* router although its interface type alone would make it a switch
C23_Witness ==
    /\ pc = "done"
    /\ Score(router_indicators, LowerText(config_text))
          = Score(switch_indicators, LowerText(config_text))
    /\ AnyOccurs({"ospf", "bgp", "eigrp", "rip"}, LowerText(config_text))
    /\ ~AnyOccurs({"vlan", "switchport"}, LowerText(config_text))
    /\ HasHint({"port-channel"}, config_text)
    /\ device_type = "router"

----------------------------------------------------------------------------
(* Claims about build_topology, under SpecTopology *)

DistinctHostnames(devs) ==
    \A i, j \in 1..Len(devs) : i # j => devs[i].hostname # devs[j].hostname

\* interface k1 of device a has an address and a mask that give a network, and the
\* address of interface k2 of device b lies in it
SubnetMatch(a, k1, b, k2) ==
    LET props1 == a.interfaces[k1][2]
        props2 == b.interfaces[k2][2]
    IN  /\ HasValue(props1, "ip_address")
        /\ HasValue(props1, "subnet_mask")
        /\ ValidNetwork(props1.ip_address, props1.subnet_mask)
        /\ HasValue(props2, "ip_address")
        /\ ValidAddress(props2.ip_address)
        /\ InNetwork(props2.ip_address, IPv4Network(props1.ip_address, props1.subnet_mask))

SubnetLinked(a, b) ==
    \E k1 \in 1..Len(a.interfaces), k2 \in 1..Len(b.interfaces) : SubnetMatch(a, k1, b, k2)

DescriptionLinked(a, b) ==
    \E k \in 1..Len(a.interfaces) : Mentions(a.interfaces[k][2].description, b.hostname)

EdgesBetween(G, u, v) == {e \in G.edges : e.ends = {u, v}}

\* C7: for [A, B] with an interface of B in the network N of an interface of A, there
\* is one edge {A, B}, and it holds network = N, interface1 = that interface of A and
\* interface2 = that interface of B.
C7_SubnetEdgeMetadata ==
    (pc = "done" /\ Len(device_list) = 2 /\ DistinctHostnames(device_list)) =>
        LET A == device_list[1]
            B == device_list[2]
        IN  SubnetLinked(A, B) =>
                /\ Cardinality(EdgesBetween(graph, A.hostname, B.hostname)) = 1
                /\ \E k1 \in 1..Len(A.interfaces), k2 \in 1..Len(B.interfaces) :
                      /\ SubnetMatch(A, k1, B, k2)
                      /\ EdgeData(graph, A.hostname, B.hostname)
                            = [interface1 |-> A.interfaces[k1][1],
                               interface2 |-> B.interfaces[k2][1],
                               network |-> IPv4Network(A.interfaces[k1][2].ip_address,
                                                       A.interfaces[k1][2].subnet_mask)]

\* C8: with pairwise distinct hostnames the graph has no edge from a hostname to
\* itself and at most one edge for each pair of hostnames.
C8_NoLoopNoDuplicate ==
    (pc = "done" /\ DistinctHostnames(device_list)) =>
        /\ \A e \in graph.edges : Cardinality(e.ends) = 2
        /\ \A e1, e2 \in graph.edges : e1.ends = e2.ends => e1 = e2

\* two devices that match by subnet in both directions and by description have an edge
C8_Witness ==
    /\ pc = "done"
    /\ DistinctHostnames(device_list)
    /\ \E i, j \in 1..Len(device_list) :
          /\ i # j
          /\ SubnetLinked(device_list[i], device_list[j])
          /\ SubnetLinked(device_list[j], device_list[i])
          /\ DescriptionLinked(device_list[i], device_list[j])
          /\ DescriptionLinked(device_list[j], device_list[i])
          /\ Cardinality(EdgesBetween(graph, device_list[i].hostname,
                                      device_list[j].hostname)) = 1

\* C9: two devices joined by a subnet and by a description have one edge, which holds
\* the metadata of the subnet pass; the description pass leaves every edge of the
\* subnet pass as it was.
C9_SubnetMetadataKept ==
    pc = "done" =>
        /\ SubnetGraph(device_list).edges \subseteq graph.edges
        /\ \A i, j \in 1..Len(device_list) :
              LET a == device_list[i]
                  b == device_list[j]
              IN  (a.hostname # b.hostname
                      /\ (SubnetLinked(a, b) \/ SubnetLinked(b, a))
                      /\ (DescriptionLinked(a, b) \/ DescriptionLinked(b, a))) =>
                      /\ Cardinality(EdgesBetween(graph, a.hostname, b.hostname)) = 1
                      /\ LET data == EdgeData(graph, a.hostname, b.hostname)
                         IN  /\ data.interface1 # None
                             /\ data.interface2 # None
                             /\ data.network # NoNetwork

\* two devices joined both ways, each description naming the other device
C9_Witness ==
    /\ pc = "done"
    /\ \E i, j \in 1..Len(device_list) :
          LET a == device_list[i]
              b == device_list[j]
          IN  /\ a.hostname # b.hostname
              /\ SubnetLinked(a, b)
              /\ DescriptionLinked(a, b)
              /\ DescriptionLinked(b, a)
              /\ EdgeData(graph, a.hostname, b.hostname).network # NoNetwork

\* C10: a description that contains the hostname of another device of the list links
\* the two devices, for every hostname it contains.
C10_EveryMentionLinked ==
    pc = "done" =>
        \A i, j \in 1..Len(device_list) :
            LET d == device_list[i]
                e == device_list[j]
            IN  (d.hostname # e.hostname /\ DescriptionLinked(d, e)) =>
                    HasEdge(graph, d.hostname, e.hostname)

\* C11: in a list of devices with pairwise distinct hostnames, two devices have no edge
\* between them when no address of one lies in a network of the other and no
\* description of one contains the hostname of the other.
C11_NoFalseEdge ==
    (pc = "done" /\ DistinctHostnames(device_list)) =>
        \A i, j \in 1..Len(device_list) :
            LET a == device_list[i]
                b == device_list[j]
            IN  (/\ i # j
                 /\ ~SubnetLinked(a, b) /\ ~SubnetLinked(b, a)
                 /\ ~DescriptionLinked(a, b) /\ ~DescriptionLinked(b, a)) =>
                    ~HasEdge(graph, a.hostname, b.hostname)

\* two devices with networks of their own and a description stay apart, while one of
\* them is linked to a third device
C11_Witness ==
    /\ pc = "done"
    /\ DistinctHostnames(device_list)
    /\ \E i, j \in 1..Len(device_list) :
          LET a == device_list[i]
              b == device_list[j]
          IN  /\ i # j
              /\ \E k \in 1..Len(a.interfaces) :
                    /\ a.interfaces[k][2].description # <<>>
                    /\ HasValue(a.interfaces[k][2], "subnet_mask")
                    /\ ValidNetwork(a.interfaces[k][2].ip_address,
                                    a.interfaces[k][2].subnet_mask)
              /\ \E k \in 1..Len(b.interfaces) :
                    /\ HasValue(b.interfaces[k][2], "subnet_mask")
                    /\ ValidNetwork(b.interfaces[k][2].ip_address,
                                    b.interfaces[k][2].subnet_mask)
              /\ ~SubnetLinked(a, b) /\ ~SubnetLinked(b, a)
              /\ ~DescriptionLinked(a, b) /\ ~DescriptionLinked(b, a)
              /\ ~HasEdge(graph, a.hostname, b.hostname)
              /\ graph.edges # {}

\* C15: for an empty device list and for a list of one device, build_topology returns
\* a graph without edges, whatever the device's interfaces, addresses and
\* descriptions are.
C15_FewDevicesNoEdge ==
    (pc = "done" /\ Len(device_list) <= 1) =>
        /\ graph.edges = {}
        /\ Len(graph.nodes) = Len(device_list)

\* the one device has an interface whose own address lies in its own network and
\* whose description contains the device's own hostname
C15_Witness ==
    /\ pc = "done"
    /\ Len(device_list) = 1
    /\ \E k \in 1..Len(device_list[1].interfaces) :
          /\ SubnetMatch(device_list[1], k, device_list[1], k)
          /\ Mentions(device_list[1].interfaces[k][2].description, device_list[1].hostname)
    /\ graph.edges = {}

\* C16: build_topology leaves its input alone: after the call every device has the
\* hostname, interfaces, vlans, routes and routing_protocols it had before, and the
\* device_obj of each node refers to the input device of that name.
C16_InputReadOnly ==
    [][(pc = "start" /\ pc' = "done") =>
          /\ Len(device_list') = Len(device_list)
          /\ \A i \in 1..Len(device_list) :
                \A field \in {"hostname", "interfaces", "vlans", "routes",
                              "routing_protocols"} :
                    device_list'[i][field] = device_list[i][field]
          /\ \A n \in 1..Len(graph'.nodes) :
                LET name == graph'.nodes[n][1]
                    device_obj == graph'.nodes[n][2].device_obj
                IN  /\ device_obj \in 1..Len(device_list)
                    /\ device_list'[device_obj] = device_list[device_obj]
                    /\ device_list[device_obj].hostname = name]_vars

\* a graph with an edge was built from devices that still have their interfaces
C16_Witness ==
    /\ pc = "done"
    /\ graph.edges # {}
    /\ \A n \in 1..Len(graph.nodes) :
          device_list[graph.nodes[n][2].device_obj].interfaces # <<>>

\* the number of edges of G that end in the node name
Degree(G, name) == Cardinality({e \in G.edges : name \in e.ends})

\* C17: for devices with pairwise distinct hostnames the nodes of the graph are
\* exactly the devices' hostnames, one node for each device, its type being the
\* device's variant; a device without interfaces or without a link is a node too.
C17_NodesAreDevices ==
    (pc = "done" /\ DistinctHostnames(device_list)) =>
        /\ Len(graph.nodes) = Len(device_list)
        /\ DictKeys(graph.nodes) = {device_list[i].hostname : i \in 1..Len(device_list)}
        /\ \A i \in 1..Len(device_list) :
              DictGet(graph.nodes, device_list[i].hostname).type = device_list[i].kind
        /\ \A e \in graph.edges : e.ends \subseteq DictKeys(graph.nodes)

\* three devices: two are linked and the third, without interfaces, is a node of
\* degree zero
C17_Witness ==
    /\ pc = "done"
    /\ DistinctHostnames(device_list)
    /\ Len(device_list) = 3
    /\ graph.edges # {}
    /\ \E i \in 1..3 :
          /\ device_list[i].interfaces = <<>>
          /\ device_list[i].hostname \in DictKeys(graph.nodes)
          /\ Degree(graph, device_list[i].hostname) = 0

\* the device of the list that has the hostname
DeviceNamed(devs, hostname) == devs[CHOOSE i \in 1..Len(devs) : devs[i].hostname = hostname]

\* C25: for every edge with metadata, enumerated by the graph as (u, v), interface1
\* is the name of an interface of device u, interface2 that of an interface of
\* device v, and network is the network of u's interface1. Stated for devices with
\* pairwise distinct hostnames.
C25_MetadataFollowsEnumeration ==
    (pc = "done" /\ DistinctHostnames(device_list)) =>
        \A e \in EdgesData(graph) :
            e.data.interface1 # None =>
                LET du == DeviceNamed(device_list, e.u)
                    dv == DeviceNamed(device_list, e.v)
                IN  /\ e.data.interface1 \in DictKeys(du.interfaces)
                    /\ e.data.interface2 \in DictKeys(dv.interfaces)
                    /\ LET props == DictGet(du.interfaces, e.data.interface1)
                       IN  /\ HasValue(props, "ip_address")
                           /\ HasValue(props, "subnet_mask")
                           /\ ValidNetwork(props.ip_address, props.subnet_mask)
                           /\ e.data.network
                                 = IPv4Network(props.ip_address, props.subnet_mask)

\* C26: build_topology makes no edge from a node to itself, for any device list,
\* also when two devices of the list have the same hostname and interfaces in a
\* common subnet.
C26_NeverSelfLoop ==
    pc = "done" => \A name \in DictKeys(graph.nodes) : ~HasEdge(graph, name, name)

\* the pairs of hostnames that the graph joins
JoinedPairs(G) == {e.ends : e \in G.edges}

\* the device lists that hold the devices of devs in another order
Reorderings(devs) ==
    {[i \in 1..Len(devs) |-> devs[f[i]]] : f \in Permutations(1..Len(devs))}

\* C28: for devices with pairwise distinct hostnames the set of pairs of hostnames
\* that build_topology joins is the same for every order of the device list.
C28_OrderIndependent ==
    (pc = "done" /\ DistinctHostnames(device_list)) =>
        \A other \in Reorderings(device_list) :
            JoinedPairs(build_topology(other)) = JoinedPairs(graph)

----------------------------------------------------------------------------
(* Claims about parse_any_config and the loop of main, under Spec *)

ClassifiesUnknown(file) ==
    /\ file.exists
    /\ ~IsBlankText(file.text)
    /\ detect_device_type(file.text) = "unknown"

\* C4: a file whose text classifies as unknown does not stop the run: parse_any_config
\* raises nothing for it, and main goes on with the remaining files and the topology.
C4_UnknownFileSkipped ==
    \A k \in 1..Len(config_files) :
        ClassifiesUnknown(config_files[k]) =>
            ~(pc = "crashed" /\ file_idx = k - 1)

\* the file is missing or empty, or its extractor raises
QuietFailure(file) ==
    \/ ~file.exists
    \/ IsBlankText(file.text)
    \/ /\ detect_device_type(file.text) \in {"switch", "router"}
       /\ file.extractor_raises

Extracted(file) ==
    IF detect_device_type(file.text) = "switch"
    THEN parse_switch_config(file.text, Switch)
    ELSE parse_router_config(file.text, Router)

\* the device each file of the catalogue gives when its extractor ends well
ExtractedFrom == [file \in Files |-> Extracted(file)]

\* the devices of the first n files, the failed files left out
RECURSIVE Collected(_, _)
Collected(files, n) ==
    IF n = 0 THEN <<>>
    ELSE IF QuietFailure(files[n]) THEN Collected(files, n - 1)
    ELSE Append(Collected(files, n - 1), ExtractedFrom[files[n]])

\* C5: a file that is missing or empty, or whose extractor raises, never stops the run;
\* all_devices holds the devices of the other files of the loop so far, in their order,
\* the loop reaches the last file, and the topology is built from all_devices.
C5_FailedFileIsolated ==
    /\ pc = "crashed" => ~QuietFailure(config_files[file_idx + 1])
    /\ all_devices = Collected(config_files, file_idx)
    /\ (pc = "done" /\ Len(all_devices) > 1) =>
          /\ file_idx = Len(config_files)
          /\ device_list = all_devices
          /\ DictKeys(graph.nodes) = {all_devices[k].hostname : k \in 1..Len(all_devices)}

\* a file whose extractor raised stands between two files that gave a device
C5_Witness ==
    /\ pc = "done"
    /\ Len(config_files) = 3
    /\ ~QuietFailure(config_files[1])
    /\ config_files[2].exists /\ config_files[2].extractor_raises
    /\ ~QuietFailure(config_files[3])
    /\ Len(all_devices) = 2
    /\ Cardinality(graph.edges) = 1

\* C24: in every run of main build_topology is called at most once, after
\* parse_any_config has returned for every file (no extraction follows it), with the
\* devices whose parse succeeded, and only when these are two or more. A call shows
\* in device_list, which holds the argument of the call.
C24_TopologyAfterExtraction ==
    [][/\ device_list' # device_list =>
             /\ device_list = <<>>
             /\ pc = "loop" /\ pc' = "done"
             /\ file_idx = Len(config_files)
             /\ device_list' = all_devices
             /\ all_devices = Collected(config_files, Len(config_files))
             /\ Len(all_devices) >= 2
             /\ DictKeys(graph'.nodes) = {all_devices[k].hostname : k \in 1..Len(all_devices)}
       /\ (file_idx' # file_idx \/ all_devices' # all_devices \/ device' # device) =>
             device_list = <<>>
       /\ pc = "done" => UNCHANGED vars]_vars

\* the topology was built from the two devices of three files, the last of which
\* gave no device
C24_Witness ==
    /\ pc = "done"
    /\ Len(config_files) = 3
    /\ file_idx = 3
    /\ QuietFailure(config_files[3])
    /\ Len(device_list) = 2
    /\ device_list = all_devices
    /\ Len(graph.nodes) >= 1

\* an end of the edge is a node of type Switch
HasSwitchEnd(G, e) == \E name \in e.ends : DictGet(G.nodes, name).type = "Switch"

\* C27, as stated: in a topology built from the devices of parse_any_config every
\* edge with a Switch at an end carries no interface1, interface2 or network.
C27_SwitchEdgeBare ==
    (pc = "done" /\ device_list # <<>>) =>
        \A e \in graph.edges : HasSwitchEnd(graph, e) => e.data = NoAttr

\* C27, for devices with pairwise distinct hostnames: no interface record of a Switch
\* holds an ip_address, and every edge with a Switch at an end carries no
\* interface1, interface2 or network.
C27_SwitchEdgeBareDistinct ==
    (pc = "done" /\ device_list # <<>>) =>
        /\ \A i \in 1..Len(device_list) :
              device_list[i].kind = "Switch" =>
                  \A k \in 1..Len(device_list[i].interfaces) :
                      ~HasValue(device_list[i].interfaces[k][2], "ip_address")
        /\ DistinctHostnames(device_list) =>
              \A e \in graph.edges : HasSwitchEnd(graph, e) => e.data = NoAttr

\* two routers and a switch of distinct hostnames: the switch text has an address
\* line in the routers' subnet, the routers' edge carries a network, and the
\* switch's edge carries nothing
C27_Witness ==
    /\ pc = "done"
    /\ Len(device_list) = 3
    /\ DistinctHostnames(device_list)
    /\ \E k \in 1..Len(config_files) : config_files[k].text = TextSW1
    /\ \E e \in graph.edges : HasSwitchEnd(graph, e) /\ e.data = NoAttr
    /\ \E e \in graph.edges : ~HasSwitchEnd(graph, e) /\ e.data.network # NoNetwork

=============================================================================
